---- MODULE Spec2Model ----
(***************************************************************************)
(* Query dispatch and batching runner of the MLPerf inference harness      *)
(* (v0.5/classification_and_detection/python/lib_entry.py): Item,          *)
(* RunnerBase, QueueRunner and the driver that calls start_run, enqueue    *)
(* and finish.                                                             *)
(*                                                                         *)
(* Threads: 0 is the caller's thread (the load generator calling           *)
(* issue_queries, the main thread calling start_run and finish);           *)
(* 1..threads are the worker threads of QueueRunner.                       *)
(* A step of a thread is one access to state shared between threads, so    *)
(* that every interleaving the interpreter can produce is a behaviour.     *)
(*                                                                         *)
(* Not modelled: Item.start (a wall-clock time; a latency sample is        *)
(* identified by the query ids of the item it was taken for),              *)
(* self.batch_count (read only by a diagnostic print) and the queue's      *)
(* unfinished-task count (task_done; nothing joins the queue).             *)
(* result_timing and the post-processor's accumulator are bags: their      *)
(* readers (len, mean, percentile) do not depend on the order of appends.  *)
(***************************************************************************)
EXTENDS Integers, Sequences, FiniteSets, Bags, TLC

\* ---- bounds ----
MaxThreads == 2        \* pool sizes 1..MaxThreads
MaxBatch == 2          \* max_batchsize 1..MaxBatch
MaxLen == 3            \* samples per issue_queries call 1..MaxLen
MaxSamples == 5        \* samples issued in one behaviour
DatasetCount == 2      \* dataset items 0..DatasetCount-1

\* ---- program constants ----
QueueFactor == 4       \* Queue(maxsize=threads * 4)

Main == 0

VARIABLES
    kind,              \* class of the runner: "RunnerBase" or "QueueRunner"
    threads,           \* self.threads
    max_batchsize,     \* self.max_batchsize
    take_accuracy,     \* self.take_accuracy
    result_timing,     \* self.result_timing
    result_dict,       \* self.result_dict: the run's good/total counters
    pp_results,        \* the post-processor's accumulator (add_results)
    pp_starts,         \* calls of post_process.start()
    tasks,             \* self.tasks: the bounded FIFO queue
    pc,                \* position of every thread
    qitem,             \* per thread: the item it executes
    processed_results, \* per thread: local of run_one_item
    tmp,               \* per thread: counters read by the unguarded read-modify-write
    raised,            \* per thread: what raised in the current run_one_item
    query_samples,     \* argument of the enqueue call in progress
    i,                 \* loop variable of enqueue
    created,           \* Items created by the enqueue call in progress
    j,                 \* loop variable of finish
    nextId,            \* next query id the driver issues
    completions,       \* driver: per query id, the responses received
    predict_calls,     \* Model: per query id, the predict calls made for its item
    phase,             \* position of the main thread in mlperf_process
    params,            \* params of mlperf_process (SCENARIO, MAX_LATENCY, ACCURACY, backend)
    si,                \* position of "for scenario in params[SCENARIO]"
    li,                \* position of "for target_latency in max_latency"
    last_timeing,      \* the module global last_timeing
    final_results,     \* final_results: summary entries by name
    error,             \* the exception that ended mlperf_process, or "none"
    result_list,       \* add_results on numbers: its latency samples (milliseconds)
    took,              \* add_results on numbers: the elapsed time (milliseconds)
    result,            \* add_results on numbers: the entry it computed
    profiles,          \* SUPPORTED_PROFILES: the profile mappings by name
    called,            \* the profiles get_args was called with, in order
    returned           \* what the latest get_args call returned or raised

process == <<phase, params, si, li, last_timeing, final_results, error>>
numbers == <<result_list, took, result>>
args == <<profiles, called, returned>>
config == <<kind, threads, max_batchsize, process, numbers, args>>
run_state == <<take_accuracy, result_timing, result_dict, pp_results, pp_starts>>
locals == <<qitem, processed_results, tmp, raised>>
call == <<query_samples, i, created, nextId>>

vars == <<config, run_state, locals, call, tasks, pc, j, completions, predict_calls>>

Ids == 1..MaxSamples
Workers == 1..threads
Executors == 0..threads

\* ---- values ----
None == [tag |-> "None"]
NoItem == [tag |-> "NoItem"]
NoCounters == [good |-> 0, total |-> 0]

\* QuerySample {index, id}
QuerySample(index, id) == [index |-> index, id |-> id]

\* Dataset.get_samples(idx) -> (data, label): one entry per index
get_samples(ix) == [data |-> [k \in 1..Len(ix) |-> 100 + ix[k]],
                    label |-> [k \in 1..Len(ix) |-> 200 + ix[k]]]

\* class Item
Item(qid, cid, img, label) ==
    [tag |-> "Item", query_id |-> qid, content_id |-> cid, img |-> img, label |-> label]

\* mutant of Slice: the slice stops one element early
Slice_short(s, a, b) ==
    LET e == IF b - 1 < Len(s) THEN b - 1 ELSE Len(s)
    IN  IF a >= e THEN <<>> ELSE [k \in 1..(e - a) |-> s[a + k]]

\* Python slice s[a:b] with 0-based a, b (clipped at the end of s)
Slice(s, a, b) ==
    LET e == IF b < Len(s) THEN b ELSE Len(s)
    IN  IF a >= e THEN <<>> ELSE [k \in 1..(e - a) |-> s[a + k]]

RangeOf(s) == {s[k] : k \in 1..Len(s)}

\* no mlperf_process around the runner
NoParams == [SCENARIO |-> <<>>, MAX_LATENCY |-> <<>>, ACCURACY |-> FALSE, backend |-> "null"]
NoProcess ==
    /\ phase = "run"
    /\ params = NoParams
    /\ si = 1
    /\ li = 1
    /\ last_timeing = EmptyBag
    /\ final_results = <<>>
    /\ error = "none"

\* a value of a profile: a string (its parts are what split(",") yields) or a list
Str(parts) == [type |-> "str", parts |-> parts]
List(parts) == [type |-> "list", parts |-> parts]

\* SUPPORTED_PROFILES as declared (five of its entries)
DeclaredProfiles ==
    [name \in {"default_tf_object_det_zoo", "tf_yolo", "resnet50-tf",
               "resnet50-onnxruntime", "ssd-mobilenet-onnxruntime"} |->
       CASE name = "default_tf_object_det_zoo" ->
              [k \in {"inputs", "outputs", "dataset", "backend"} |->
                 CASE k = "inputs" -> Str(<<"image_tensor:0">>)
                   [] k = "outputs" -> Str(<<"num_detections:0", "detection_boxes:0",
                                            "detection_scores:0", "detection_classes:0">>)
                   [] k = "dataset" -> Str(<<"coco-standard">>)
                   [] k = "backend" -> Str(<<"tensorflow">>)]
         [] name = "tf_yolo" ->
              [k \in {"inputs", "outputs", "dataset", "backend"} |->
                 CASE k = "inputs" -> Str(<<"input/input_data:0">>)
                   [] k = "outputs" -> Str(<<"pred_sbbox/concat_2:0", "pred_mbbox/concat_2:0",
                                            "pred_lbbox/concat_2:0">>)
                   [] k = "dataset" -> Str(<<"coco-yolo">>)
                   [] k = "backend" -> Str(<<"tensorflow">>)]
         [] name = "resnet50-tf" ->
              [k \in {"inputs", "outputs", "dataset", "backend", "max-latency"} |->
                 CASE k = "inputs" -> Str(<<"input_tensor:0">>)
                   [] k = "outputs" -> Str(<<"ArgMax:0">>)
                   [] k = "dataset" -> Str(<<"imagenet">>)
                   [] k = "backend" -> Str(<<"tensorflow">>)
                   [] k = "max-latency" -> Str(<<"0.015">>)]
         [] name = "resnet50-onnxruntime" ->
              [k \in {"outputs", "dataset", "backend", "max-latency"} |->
                 CASE k = "outputs" -> Str(<<"ArgMax:0">>)
                   [] k = "dataset" -> Str(<<"imagenet">>)
                   [] k = "backend" -> Str(<<"onnxruntime">>)
                   [] k = "max-latency" -> Str(<<"0.015">>)]
         [] name = "ssd-mobilenet-onnxruntime" ->
              [k \in {"outputs", "dataset", "backend", "data-format", "max-latency"} |->
                 CASE k = "outputs" -> Str(<<"num_detections:0", "detection_boxes:0",
                                            "detection_scores:0", "detection_classes:0">>)
                   [] k = "dataset" -> Str(<<"coco-300">>)
                   [] k = "backend" -> Str(<<"onnxruntime">>)
                   [] k = "data-format" -> Str(<<"NHWC">>)
                   [] k = "max-latency" -> Str(<<"0.010">>)]]

\* no get_args call on the profiles
NoArgs ==
    /\ profiles = DeclaredProfiles
    /\ called = <<>>
    /\ returned = None

\* no add_results on numbers
NoNumbers ==
    /\ result_list = <<>>
    /\ took = 0
    /\ result = None

\* ---- initial state: the runner after construction ----
Init ==
    /\ NoProcess
    /\ NoNumbers
    /\ NoArgs
    /\ kind \in {"RunnerBase", "QueueRunner"}
    /\ threads \in 1..MaxThreads
    /\ max_batchsize \in 1..MaxBatch
    /\ take_accuracy = FALSE
    /\ result_timing = EmptyBag
    /\ result_dict = NoCounters
    /\ pp_results = EmptyBag
    /\ pp_starts = 0
    /\ tasks = <<>>
    /\ pc = [t \in 0..threads |->
               IF t = Main THEN "constructed"
               ELSE IF kind = "QueueRunner" THEN "get" ELSE "absent"]
    /\ qitem = [t \in 0..threads |-> NoItem]
    /\ processed_results = [t \in 0..threads |-> <<>>]
    /\ tmp = [t \in 0..threads |-> NoCounters]
    /\ raised = [t \in 0..threads |-> "none"]
    /\ query_samples = <<>>
    /\ i = 0
    /\ created = <<>>
    /\ j = 0
    /\ nextId = 1
    /\ completions = [q \in Ids |-> <<>>]
    /\ predict_calls = [q \in Ids |-> 0]

\* ---- pure helpers of run_one_item ----

\* Model.predict(feed): one raw result per input of the batch
predict(img) == [k \in 1..Len(img) |-> img[k] + 1]

\* the post-processor's call: one processed output per query of the item
post_process(results) == [k \in 1..Len(results) |-> <<results[k]>>]

\* mutant of FailedResults: a failed item answers with a zero instead of nothing
FailedResults_zero(item) == [k \in 1..Len(item.query_id) |-> <<0>>]

\* the except branch: processed_results = [[]] * len(qitem.query_id)
FailedResults(item) == [k \in 1..Len(item.query_id) |-> <<>>]

\* np.array(processed_results[idx], np.float32).tobytes(): 4 bytes per float32;
\* lg.QuerySampleResponse(query_id, bi[0], bi[1])
QuerySampleResponse(qid, processed) ==
    [query_id |-> qid, data |-> processed, size |-> 4 * Len(processed)]

\* mutant of start_run: the runner keeps the counters it has
start_run_keep(rd, acc) ==
    /\ pc[Main] = "constructed"
    /\ result_dict' = result_dict
    /\ result_timing' = EmptyBag
    /\ take_accuracy' = acc
    /\ pp_results' = EmptyBag
    /\ pp_starts' = pp_starts + 1
    /\ pc' = [pc EXCEPT ![Main] = "idle"]
    /\ UNCHANGED <<config, locals, call, tasks, j, completions, predict_calls>>

\* ---- RunnerBase.start_run(result_dict, take_accuracy) ----
start_run(rd, acc) ==
    /\ pc[Main] = "constructed"
    /\ result_dict' = rd
    /\ result_timing' = EmptyBag
    /\ take_accuracy' = acc
    /\ pp_results' = EmptyBag
    /\ pp_starts' = pp_starts + 1
    /\ pc' = [pc EXCEPT ![Main] = "idle"]
    /\ UNCHANGED <<config, locals, call, tasks, j, completions, predict_calls>>

\* ---- the driver calls issue_queries(query_samples) -> runner.enqueue ----
\* (n samples with fresh ids; the sample indices walk round the dataset)
issue_queries(n) ==
    /\ pc[Main] = "idle"
    /\ nextId + n - 1 <= MaxSamples
    /\ query_samples' = [k \in 1..n |->
                           QuerySample((nextId + k - 2) % DatasetCount, nextId + k - 1)]
    /\ nextId' = nextId + n
    /\ i' = 0
    /\ created' = <<>>
    /\ pc' = [pc EXCEPT ![Main] = "enqueue"]
    /\ UNCHANGED <<config, run_state, locals, tasks, j, completions, predict_calls>>

\* idx = [q.index for q in query_samples]; query_id = [q.id for q in query_samples]
idx == [k \in 1..Len(query_samples) |-> query_samples[k].index]
query_id == [k \in 1..Len(query_samples) |-> query_samples[k].id]

\* mutant of MoreItems: the loop stops before the last partition
MoreItems_early ==
    IF Len(query_samples) < max_batchsize
    THEN created = <<>>
    ELSE i + max_batchsize < Len(query_samples)

\* the enqueue call has another Item to create
MoreItems ==
    IF Len(query_samples) < max_batchsize
    THEN created = <<>>
    ELSE i < Len(query_samples)

\* mutant of NextItem: the content ids are sliced from the start of the input
NextItem_misaligned ==
    IF Len(query_samples) < max_batchsize
    THEN Item(query_id, idx, get_samples(idx).data, get_samples(idx).label)
    ELSE LET bs == max_batchsize
             ie == i + bs
         IN  Item(Slice(query_id, i, ie), Slice(idx, 0, bs),
                  get_samples(Slice(idx, 0, bs)).data,
                  get_samples(Slice(idx, 0, bs)).label)

\* the Item the enqueue loop creates at position i
NextItem ==
    IF Len(query_samples) < max_batchsize
    THEN Item(query_id, idx, get_samples(idx).data, get_samples(idx).label)
    ELSE LET bs == max_batchsize
             ie == i + bs
         IN  Item(Slice(query_id, i, ie), Slice(idx, i, ie),
                  get_samples(Slice(idx, i, ie)).data,
                  get_samples(Slice(idx, i, ie)).label)

\* the loop variable after the Item at position i
NextI == IF Len(query_samples) < max_batchsize THEN i ELSE i + max_batchsize

\* mutant of RunnerBase_enqueue: the Item is created but its execution is skipped
RunnerBase_enqueue_deferred ==
    /\ pc[Main] = "enqueue"
    /\ kind = "RunnerBase"
    /\ MoreItems
    /\ created' = Append(created, NextItem)
    /\ i' = NextI
    /\ UNCHANGED <<config, run_state, locals, query_samples, nextId, pc, tasks, j,
                   completions, predict_calls>>

\* ---- RunnerBase.enqueue: run the next Item on the caller's thread ----
RunnerBase_enqueue ==
    /\ pc[Main] = "enqueue"
    /\ kind = "RunnerBase"
    /\ MoreItems
    /\ created' = Append(created, NextItem)
    /\ i' = NextI
    /\ qitem' = [qitem EXCEPT ![Main] = NextItem]
    /\ pc' = [pc EXCEPT ![Main] = "run"]
    /\ UNCHANGED <<config, run_state, processed_results, tmp, raised, query_samples, nextId,
                   tasks, j, completions, predict_calls>>

\* mutant of put: the queue has no maxsize
put_unbounded(entry) ==
    /\ tasks' = Append(tasks, entry)

\* Queue.put(entry): blocks while the queue holds maxsize entries
put(entry) ==
    /\ Len(tasks) < threads * QueueFactor
    /\ tasks' = Append(tasks, entry)

\* mutant of QueueRunner_enqueue: the Item is executed on the caller's thread
QueueRunner_enqueue_inline ==
    /\ pc[Main] = "enqueue"
    /\ kind = "QueueRunner"
    /\ MoreItems
    /\ created' = Append(created, NextItem)
    /\ i' = NextI
    /\ qitem' = [qitem EXCEPT ![Main] = NextItem]
    /\ pc' = [pc EXCEPT ![Main] = "run"]
    /\ UNCHANGED <<config, run_state, processed_results, tmp, raised, query_samples, nextId,
                   tasks, j, completions, predict_calls>>

\* mutant of QueueRunner_enqueue: an Item that finds the queue full is dropped
QueueRunner_enqueue_drop ==
    /\ pc[Main] = "enqueue"
    /\ kind = "QueueRunner"
    /\ MoreItems
    /\ tasks' = IF Len(tasks) < threads * QueueFactor THEN Append(tasks, NextItem) ELSE tasks
    /\ created' = Append(created, NextItem)
    /\ i' = NextI
    /\ UNCHANGED <<config, run_state, locals, query_samples, nextId, pc, j, completions, predict_calls>>

\* ---- QueueRunner.enqueue: push the next Item ----
QueueRunner_enqueue ==
    /\ pc[Main] = "enqueue"
    /\ kind = "QueueRunner"
    /\ MoreItems
    /\ put(NextItem)
    /\ created' = Append(created, NextItem)
    /\ i' = NextI
    /\ UNCHANGED <<config, run_state, locals, query_samples, nextId, pc, j, completions, predict_calls>>

\* enqueue returns (either runner)
enqueue_return ==
    /\ pc[Main] = "enqueue"
    /\ ~MoreItems
    /\ query_samples' = <<>>
    /\ i' = 0
    /\ created' = <<>>
    /\ pc' = [pc EXCEPT ![Main] = "idle"]
    /\ UNCHANGED <<config, run_state, locals, nextId, tasks, j, completions, predict_calls>>

\* ---- RunnerBase.run_one_item, executed by thread t ----

\* self.model.predict(feed) is called with the batch of item it
Called(it) ==
    [q \in Ids |-> IF q \in RangeOf(it.query_id) THEN predict_calls[q] + 1
                   ELSE predict_calls[q]]

\* results = self.model.predict(feed) returns
predict_returns(t) ==
    /\ pc[t] = "run"
    /\ predict_calls' = Called(qitem[t])
    /\ pc' = [pc EXCEPT ![t] = "post_process"]
    /\ UNCHANGED <<config, run_state, locals, call, tasks, j, completions>>

\* mutant of except_branch: the exception is not caught and ends the thread
except_branch_uncaught(t, what) ==
    /\ raised' = [raised EXCEPT ![t] = what]
    /\ processed_results' = [processed_results EXCEPT ![t] = <<>>]
    /\ pc' = [pc EXCEPT ![t] = "exited"]

\* the except branch of run_one_item: fake empty responses
except_branch(t, what) ==
    /\ raised' = [raised EXCEPT ![t] = what]
    /\ processed_results' = [processed_results EXCEPT ![t] = FailedResults(qitem[t])]
    /\ pc' = [pc EXCEPT ![t] = "respond"]

\* self.model.predict(feed) raises
predict_raises(t) ==
    /\ pc[t] = "run"
    /\ predict_calls' = Called(qitem[t])
    /\ except_branch(t, "predict")
    /\ UNCHANGED <<config, run_state, qitem, tmp, call, tasks, j, completions>>

\* self.post_process(results, content_id, label, result_dict) starts and reads the
\* counters of the run state it is about to update (no lock is held)
post_process_read(t) ==
    /\ pc[t] = "post_process"
    /\ tmp' = [tmp EXCEPT ![t] = result_dict]
    /\ pc' = [pc EXCEPT ![t] = "post_process_write"]
    /\ UNCHANGED <<config, run_state, qitem, processed_results, raised, call, tasks, j,
                   completions, predict_calls>>

\* self.post_process(...) raises
post_process_raises(t) ==
    /\ pc[t] = "post_process"
    /\ except_branch(t, "post_process")
    /\ UNCHANGED <<config, run_state, qitem, tmp, call, tasks, j, completions, predict_calls>>

\* the counters after the post-processor counted n samples, from the values it read
Counted(read, n) == [good |-> read.good + n, total |-> read.total + n]

\* self.post_process(...) writes the counters and returns the processed results;
\* then "if self.take_accuracy" is evaluated
post_process_write(t) ==
    /\ pc[t] = "post_process_write"
    /\ result_dict' = Counted(tmp[t], Len(qitem[t].query_id))
    /\ processed_results' = [processed_results EXCEPT
                               ![t] = post_process(predict(qitem[t].img))]
    /\ tmp' = [tmp EXCEPT ![t] = NoCounters]
    /\ pc' = [pc EXCEPT ![t] = IF take_accuracy THEN "take_accuracy" ELSE "respond"]
    /\ UNCHANGED <<config, take_accuracy, result_timing, pp_results, pp_starts, qitem,
                   raised, call, tasks, j, completions, predict_calls>>

\* time.time() - qitem.start: the latency sample of item it
latency(it) == it.query_id

\* mutant of record_accuracy: the latency sample is appended twice
record_accuracy_twice(t) ==
    /\ pc[t] = "take_accuracy"
    /\ pp_results' = pp_results (+) SetToBag({processed_results[t]})
    /\ result_timing' = result_timing (+) SetToBag({latency(qitem[t])})
                                      (+) SetToBag({latency(qitem[t])})
    /\ pc' = [pc EXCEPT ![t] = "respond"]
    /\ UNCHANGED <<config, take_accuracy, result_dict, pp_starts, locals, call, tasks, j,
                   completions, predict_calls>>

\* self.post_process.add_results(processed_results);
\* self.result_timing.append(time.time() - qitem.start)
record_accuracy(t) ==
    /\ pc[t] = "take_accuracy"
    /\ pp_results' = pp_results (+) SetToBag({processed_results[t]})
    /\ result_timing' = result_timing (+) SetToBag({latency(qitem[t])})
    /\ pc' = [pc EXCEPT ![t] = "respond"]
    /\ UNCHANGED <<config, take_accuracy, result_dict, pp_starts, locals, call, tasks, j,
                   completions, predict_calls>>

\* mutant of Responses: each query id is paired with the next query's output
Responses_rotated(it, processed) ==
    [k \in 1..Len(it.query_id) |->
        QuerySampleResponse(it.query_id[k], processed[(k % Len(it.query_id)) + 1])]

\* mutant of Responses: the last query of the item gets no response
Responses_dropLast(it, processed) ==
    [k \in 1..(Len(it.query_id) - 1) |-> QuerySampleResponse(it.query_id[k], processed[k])]

\* the responses the finally branch builds for item it
Responses(it, processed) ==
    [k \in 1..Len(it.query_id) |-> QuerySampleResponse(it.query_id[k], processed[k])]

\* lg.QuerySamplesComplete(response): the driver records every response of the list
QuerySamplesComplete(response) ==
    [q \in Ids |-> completions[q] \o SelectSeq(response, LAMBDA r : r.query_id = q)]

\* mutant of respond: no finally branch, a failed item is dropped without responses
respond_nofinally(t) ==
    /\ pc[t] = "respond"
    /\ completions' = IF raised[t] = "none"
                      THEN QuerySamplesComplete(Responses(qitem[t], processed_results[t]))
                      ELSE completions
    /\ qitem' = [qitem EXCEPT ![t] = NoItem]
    /\ processed_results' = [processed_results EXCEPT ![t] = <<>>]
    /\ raised' = [raised EXCEPT ![t] = "none"]
    /\ pc' = [pc EXCEPT ![t] = IF t = Main THEN "enqueue" ELSE "get"]
    /\ UNCHANGED <<config, run_state, tmp, call, tasks, j, predict_calls>>

\* the finally branch: build the responses and deliver them; run_one_item returns
\* (a worker then calls task_done and loops to tasks_queue.get())
respond(t) ==
    /\ pc[t] = "respond"
    /\ Len(processed_results[t]) >= Len(qitem[t].query_id)
    /\ completions' = QuerySamplesComplete(Responses(qitem[t], processed_results[t]))
    /\ qitem' = [qitem EXCEPT ![t] = NoItem]
    /\ processed_results' = [processed_results EXCEPT ![t] = <<>>]
    /\ raised' = [raised EXCEPT ![t] = "none"]
    /\ pc' = [pc EXCEPT ![t] = IF t = Main THEN "enqueue" ELSE "get"]
    /\ UNCHANGED <<config, run_state, tmp, call, tasks, j, predict_calls>>

\* ---- QueueRunner.handle_tasks, worker t ----

\* the entry tasks_queue.get() returns
get == Head(tasks)

\* mutant of handle_tasks_item: the Item is read but stays on the queue
handle_tasks_item_peek(t) ==
    /\ pc[t] = "get"
    /\ tasks # <<>>
    /\ get.tag = "Item"
    /\ tasks' = tasks
    /\ qitem' = [qitem EXCEPT ![t] = get]
    /\ pc' = [pc EXCEPT ![t] = "run"]
    /\ UNCHANGED <<config, run_state, processed_results, tmp, raised, call, j, completions, predict_calls>>

\* qitem = tasks_queue.get() returns an Item
handle_tasks_item(t) ==
    /\ pc[t] = "get"
    /\ tasks # <<>>
    /\ get.tag = "Item"
    /\ tasks' = Tail(tasks)
    /\ qitem' = [qitem EXCEPT ![t] = get]
    /\ pc' = [pc EXCEPT ![t] = "run"]
    /\ UNCHANGED <<config, run_state, processed_results, tmp, raised, call, j, completions, predict_calls>>

\* mutant of handle_tasks_None: the sentinel is read but stays on the queue
handle_tasks_None_keep(t) ==
    /\ pc[t] = "get"
    /\ tasks # <<>>
    /\ get.tag = "None"
    /\ tasks' = tasks
    /\ pc' = [pc EXCEPT ![t] = "exited"]
    /\ UNCHANGED <<config, run_state, locals, call, j, completions, predict_calls>>

\* qitem = tasks_queue.get() returns None: task_done(); break
handle_tasks_None(t) ==
    /\ pc[t] = "get"
    /\ tasks # <<>>
    /\ get.tag = "None"
    /\ tasks' = Tail(tasks)
    /\ pc' = [pc EXCEPT ![t] = "exited"]
    /\ UNCHANGED <<config, run_state, locals, call, j, completions, predict_calls>>

\* ---- finish ----

\* RunnerBase.finish: pass
RunnerBase_finish ==
    /\ pc[Main] = "idle"
    /\ kind = "RunnerBase"
    /\ pc' = [pc EXCEPT ![Main] = "finished"]
    /\ UNCHANGED <<config, run_state, locals, call, tasks, j, completions, predict_calls>>

\* QueueRunner.finish is called
QueueRunner_finish ==
    /\ pc[Main] = "idle"
    /\ kind = "QueueRunner"
    /\ j' = 0
    /\ pc' = [pc EXCEPT ![Main] = "finish_put"]
    /\ UNCHANGED <<config, run_state, locals, call, tasks, completions, predict_calls>>

\* mutant of finish_put: the sentinels jump the queue
finish_put_front ==
    /\ pc[Main] = "finish_put"
    /\ j < threads
    /\ Len(tasks) < threads * QueueFactor
    /\ tasks' = <<None>> \o tasks
    /\ j' = IF j + 1 = threads THEN 0 ELSE j + 1
    /\ pc' = [pc EXCEPT ![Main] = IF j + 1 = threads THEN "finish_join" ELSE "finish_put"]
    /\ UNCHANGED <<config, run_state, locals, call, completions, predict_calls>>

\* for _ in self.workers: self.tasks.put(None)
finish_put ==
    /\ pc[Main] = "finish_put"
    /\ j < threads
    /\ put(None)
    /\ j' = IF j + 1 = threads THEN 0 ELSE j + 1
    /\ pc' = [pc EXCEPT ![Main] = IF j + 1 = threads THEN "finish_join" ELSE "finish_put"]
    /\ UNCHANGED <<config, run_state, locals, call, completions, predict_calls>>

\* mutant of joinable: finish does not wait for the workers
joinable_nowait(t) == TRUE

\* worker.join() returns: the thread has ended
joinable(t) == pc[t] = "exited"

\* for worker in self.workers: worker.join(); finish returns after the last join
finish_join ==
    /\ pc[Main] = "finish_join"
    /\ j < threads
    /\ joinable(j + 1)
    /\ j' = IF j + 1 = threads THEN 0 ELSE j + 1
    /\ pc' = [pc EXCEPT ![Main] = IF j + 1 = threads THEN "finished" ELSE "finish_join"]
    /\ UNCHANGED <<config, run_state, locals, call, tasks, completions, predict_calls>>

\* ---- specification ----
Next ==
    \/ \E acc \in BOOLEAN : start_run(NoCounters, acc)
    \/ \E n \in 1..MaxLen : issue_queries(n)
    \/ RunnerBase_enqueue
    \/ QueueRunner_enqueue
    \/ enqueue_return
    \/ \E t \in Executors : predict_returns(t)
    \/ \E t \in Executors : predict_raises(t)
    \/ \E t \in Executors : post_process_read(t)
    \/ \E t \in Executors : post_process_raises(t)
    \/ \E t \in Executors : post_process_write(t)
    \/ \E t \in Executors : record_accuracy(t)
    \/ \E t \in Executors : respond(t)
    \/ \E t \in Workers : handle_tasks_item(t)
    \/ \E t \in Workers : handle_tasks_None(t)
    \/ RunnerBase_finish
    \/ QueueRunner_finish
    \/ finish_put
    \/ finish_join

Spec == Init /\ [][Next]_vars

\* ======================= a post-processor that yields too little =======================
\* The runner with a post-processor that may return fewer processed outputs than
\* the item has queries.

\* ---- bounds ----
MaxShortSamples == 3   \* samples issued in one behaviour with such a post-processor

\* the post-processor's call returns without the output of the last query
post_process_short(results) == [k \in 1..(Len(results) - 1) |-> <<results[k]>>]

\* self.post_process(...) counts what it yields and returns the short list; then
\* "if self.take_accuracy" is evaluated
post_process_write_short(t) ==
    /\ pc[t] = "post_process_write"
    /\ result_dict' = Counted(tmp[t], Len(qitem[t].query_id) - 1)
    /\ processed_results' = [processed_results EXCEPT
                               ![t] = post_process_short(predict(qitem[t].img))]
    /\ tmp' = [tmp EXCEPT ![t] = NoCounters]
    /\ pc' = [pc EXCEPT ![t] = IF take_accuracy THEN "take_accuracy" ELSE "respond"]
    /\ UNCHANGED <<config, take_accuracy, result_timing, pp_results, pp_starts, qitem,
                   raised, call, tasks, j, completions, predict_calls>>

\* the finally branch reads processed_results[idx] past the end: the IndexError
\* leaves run_one_item before QuerySamplesComplete. In a worker it leaves
\* handle_tasks and ends the thread; on the caller's thread it leaves enqueue.
respond_IndexError(t) ==
    /\ pc[t] = "respond"
    /\ Len(processed_results[t]) < Len(qitem[t].query_id)
    /\ pc' = [pc EXCEPT ![t] = IF t = Main THEN "raised" ELSE "exited"]
    /\ UNCHANGED <<config, run_state, locals, call, tasks, j, completions, predict_calls>>

ShortNext ==
    \/ \E acc \in BOOLEAN : start_run(NoCounters, acc)
    \/ \E n \in 1..MaxLen : nextId + n - 1 <= MaxShortSamples /\ issue_queries(n)
    \/ RunnerBase_enqueue
    \/ QueueRunner_enqueue
    \/ enqueue_return
    \/ \E t \in Executors : predict_returns(t)
    \/ \E t \in Executors : predict_raises(t)
    \/ \E t \in Executors : post_process_read(t)
    \/ \E t \in Executors : post_process_raises(t)
    \/ \E t \in Executors : post_process_write(t)
    \/ \E t \in Executors : post_process_write_short(t)
    \/ \E t \in Executors : record_accuracy(t)
    \/ \E t \in Executors : respond(t)
    \/ \E t \in Executors : respond_IndexError(t)
    \/ \E t \in Workers : handle_tasks_item(t)
    \/ \E t \in Workers : handle_tasks_None(t)
    \/ RunnerBase_finish
    \/ QueueRunner_finish
    \/ finish_put
    \/ finish_join

SpecShort == Init /\ [][ShortNext]_vars

\* ---- scheduling ----
\* Every thread that can take a step eventually takes one: a started predict or
\* post-process call returns or raises, a get or put that can proceed does, a
\* worker is scheduled. What the driver does (start_run, issue_queries, calling
\* finish) is not forced.

\* a step of thread t inside handle_tasks or run_one_item
ThreadStep(t) ==
    /\ t \in Executors
    /\ \/ predict_returns(t)
       \/ predict_raises(t)
       \/ post_process_read(t)
       \/ post_process_raises(t)
       \/ post_process_write(t)
       \/ post_process_write_short(t)
       \/ record_accuracy(t)
       \/ respond(t)
       \/ respond_IndexError(t)
       \/ (t \in Workers /\ (handle_tasks_item(t) \/ handle_tasks_None(t)))

\* a step of the caller inside enqueue or finish
CallerStep ==
    \/ RunnerBase_enqueue
    \/ QueueRunner_enqueue
    \/ enqueue_return
    \/ finish_put
    \/ finish_join

Fairness ==
    /\ \A t \in 0..MaxThreads : WF_vars(ThreadStep(t))
    /\ WF_vars(CallerStep)

SpecShortFair == Init /\ [][ShortNext]_vars /\ Fairness

\* ======================= a pool used after shutdown =======================
\* A caller that goes on calling enqueue on a QueueRunner after its finish() has
\* returned.

\* ---- initial state: a QueueRunner after construction ----
ReuseInit == Init /\ kind = "QueueRunner"

\* finish() has returned and the caller keeps the runner for further enqueue calls
runner_reused ==
    /\ phase = "run"
    /\ pc[Main] = "finished"
    /\ phase' = "reuse"
    /\ pc' = [pc EXCEPT ![Main] = "idle"]
    /\ UNCHANGED <<kind, threads, max_batchsize, run_state, locals, call, tasks, j,
                   completions, predict_calls, params, si, li, last_timeing,
                   final_results, error, numbers, args>>

ReuseNext ==
    \/ \E acc \in BOOLEAN : start_run(NoCounters, acc)
    \/ \E n \in 1..MaxLen : issue_queries(n)
    \/ QueueRunner_enqueue
    \/ enqueue_return
    \/ \E t \in Executors : predict_returns(t)
    \/ \E t \in Executors : predict_raises(t)
    \/ \E t \in Executors : post_process_read(t)
    \/ \E t \in Executors : post_process_raises(t)
    \/ \E t \in Executors : post_process_write(t)
    \/ \E t \in Executors : record_accuracy(t)
    \/ \E t \in Executors : respond(t)
    \/ \E t \in Workers : handle_tasks_item(t)
    \/ \E t \in Workers : handle_tasks_None(t)
    \/ phase = "run" /\ QueueRunner_finish
    \/ finish_put
    \/ finish_join
    \/ runner_reused

SpecReuse == ReuseInit /\ [][ReuseNext]_vars

\* ======================= mlperf_process =======================
\* The main thread of mlperf_process: get_args, get_backend, then for every
\* scenario a runner, one test (one per target latency for Server), add_results
\* and runner.finish(). The load generator (StartTest) issues at least one query
\* and returns when all of them are complete; in PerformanceOnly mode it reports
\* one latency per sample through process_latencies, in AccuracyOnly mode it
\* reports none. post_proc.finalize attaches no counters. The numbers of an entry
\* (mean, percentiles, qps) are computed from numbers in the last part of the
\* module; here an entry keeps the samples they are computed from.

\* ---- bounds ----
MaxTestSamples == 2    \* samples issued in one test of mlperf_process

\* ---- inputs ----
ScenarioInputs ==
    {<<"SingleStream">>, <<"Offline">>, <<"Server">>, <<"MultiStream", "Server">>,
     <<"Offline", "Bogus">>}
LatencyInputs == {<<"10">>, <<"10", "20">>, <<"10", "x">>}
BackendInputs == {"tensorflow", "bogus"}

\* SCENARIO_MAP: the scenario names
SCENARIO_MAP == {"SingleStream", "MultiStream", "Server", "Offline"}

\* float(i): the number a token stands for (milliseconds), if it is one
IsFloat(tok) == tok \in {"10", "20"}
float(tok) == IF tok = "10" THEN 10 ELSE 20

\* the backends get_backend knows
KnownBackends ==
    {"tensorflow", "tensorflowRT", "onnxruntime", "null", "pytorch", "pytorch-native",
     "tflite"}

\* ---- initial state: mlperf_process(params) is called ----
ProcessInit ==
    /\ phase = "get_args"
    /\ params \in [SCENARIO : ScenarioInputs, MAX_LATENCY : LatencyInputs,
                   ACCURACY : BOOLEAN, backend : BackendInputs]
    /\ si = 1
    /\ li = 1
    /\ last_timeing = EmptyBag
    /\ final_results = <<>>
    /\ error = "none"
    /\ NoNumbers
    /\ NoArgs
    /\ kind = "none"
    /\ threads \in 1..MaxThreads
    /\ max_batchsize \in 1..MaxBatch
    /\ take_accuracy = FALSE
    /\ result_timing = EmptyBag
    /\ result_dict = NoCounters
    /\ pp_results = EmptyBag
    /\ pp_starts = 0
    /\ tasks = <<>>
    /\ pc = [t \in 0..threads |-> IF t = Main THEN "mlperf_process" ELSE "absent"]
    /\ qitem = [t \in 0..threads |-> NoItem]
    /\ processed_results = [t \in 0..threads |-> <<>>]
    /\ tmp = [t \in 0..threads |-> NoCounters]
    /\ raised = [t \in 0..threads |-> "none"]
    /\ query_samples = <<>>
    /\ i = 0
    /\ created = <<>>
    /\ j = 0
    /\ nextId = 1
    /\ completions = [q \in Ids |-> <<>>]
    /\ predict_calls = [q \in Ids |-> 0]

runner == <<kind, threads, max_batchsize, run_state, locals, call, tasks, pc, j,
            completions, predict_calls>>

\* mutant of get_args: the scenario names are not looked up
get_args_unchecked ==
    /\ phase = "get_args"
    /\ IF \E k \in 1..Len(params.MAX_LATENCY) : ~IsFloat(params.MAX_LATENCY[k])
       THEN /\ error' = "ValueError: could not convert string to float"
            /\ phase' = "failed"
            /\ UNCHANGED params
       ELSE /\ params' = [params EXCEPT !.MAX_LATENCY =
                             [k \in 1..Len(params.MAX_LATENCY) |->
                                float(params.MAX_LATENCY[k])]]
            /\ phase' = "get_backend"
            /\ UNCHANGED error
    /\ UNCHANGED <<runner, si, li, last_timeing, final_results, numbers, args>>

\* config = get_args(params): MAX_LATENCY is converted first, then every scenario
\* name is looked up; a failed lookup reaches parser.error, and the name parser is
\* not defined
get_args ==
    /\ phase = "get_args"
    /\ IF \E k \in 1..Len(params.MAX_LATENCY) : ~IsFloat(params.MAX_LATENCY[k])
       THEN /\ error' = "ValueError: could not convert string to float"
            /\ phase' = "failed"
            /\ UNCHANGED params
       ELSE /\ params' = [params EXCEPT !.MAX_LATENCY =
                             [k \in 1..Len(params.MAX_LATENCY) |->
                                float(params.MAX_LATENCY[k])]]
            /\ IF \E k \in 1..Len(params.SCENARIO) : params.SCENARIO[k] \notin SCENARIO_MAP
               THEN /\ error' = "NameError: name 'parser' is not defined"
                    /\ phase' = "failed"
               ELSE /\ phase' = "get_backend"
                    /\ UNCHANGED error
    /\ UNCHANGED <<runner, si, li, last_timeing, final_results, numbers, args>>

\* backend = get_backend(config['backend'])
get_backend ==
    /\ phase = "get_backend"
    /\ IF params.backend \in KnownBackends
       THEN /\ phase' = "scenario"
            /\ UNCHANGED error
       ELSE /\ error' = "ValueError: unknown backend"
            /\ phase' = "failed"
    /\ UNCHANGED <<runner, params, si, li, last_timeing, final_results, numbers, args>>

\* the scenario and the target latency of the loops
scenario == params.SCENARIO[si]
target_latency == params.MAX_LATENCY[li]

\* runner_map[scenario]
runner_map(sc) ==
    IF sc = "SingleStream" THEN "RunnerBase"
    ELSE IF sc \in SCENARIO_MAP THEN "QueueRunner" ELSE "KeyError"

\* runner = runner_map[scenario](model, ds, NUM_THREADS, post_proc, BATCH_SIZE);
\* lg.ConstructSUT, lg.ConstructQSL: a new runner (its workers started) and a new
\* driver
construct_runner ==
    /\ phase = "scenario"
    /\ si <= Len(params.SCENARIO)
    /\ IF runner_map(scenario) = "KeyError"
       THEN /\ error' = "KeyError"
            /\ phase' = "failed"
            /\ UNCHANGED <<kind, pc>>
       ELSE /\ kind' = runner_map(scenario)
            /\ pc' = [t \in 0..threads |->
                        IF t = Main THEN "constructed"
                        ELSE IF runner_map(scenario) = "QueueRunner" THEN "get"
                        ELSE "absent"]
            /\ phase' = "run"
            /\ UNCHANGED error
    /\ take_accuracy' = FALSE
    /\ result_timing' = EmptyBag
    /\ result_dict' = NoCounters
    /\ tasks' = <<>>
    /\ li' = 1
    /\ nextId' = 1
    /\ completions' = [q \in Ids |-> <<>>]
    /\ predict_calls' = [q \in Ids |-> 0]
    /\ UNCHANGED <<threads, max_batchsize, pp_results, pp_starts, locals, query_samples,
                   i, created, j, params, si, last_timeing, final_results, numbers, args>>

\* process_latencies(latencies_ns): one latency per sample of the test
process_latencies == SetToBag({<<q>> : q \in 1..(nextId - 1)})

\* lg.StartTest(sut, qsl, settings) returns: every query issued is complete
StartTest_returns ==
    /\ phase = "run"
    /\ pc[Main] = "idle"
    /\ nextId > 1
    /\ \A q \in 1..(nextId - 1) : completions[q] # <<>>
    /\ last_timeing' = IF params.ACCURACY THEN last_timeing ELSE process_latencies
    /\ phase' = "aggregate"
    /\ UNCHANGED <<runner, params, si, li, final_results, error, numbers, args>>

\* mutant of Name: the entry of a Server run is named by the scenario alone
Name_scenario(sc, target) == <<sc>>

\* the name of the entry: "{}-{}".format(scenario, target_latency) for Server,
\* "{}".format(scenario) otherwise
Name(sc, target) == IF sc = "Server" THEN <<sc, target>> ELSE <<sc>>

\* if not last_timeing: last_timeing = runner.result_timing
Fallback == IF last_timeing = EmptyBag THEN result_timing ELSE last_timeing

\* mutant of Patched: a zero total is left as it is
Patched_never(rd, list) == rd

\* add_results: if result_dict["total"] == 0: result_dict["total"] = len(result_list)
Patched(rd, list) ==
    IF rd.total = 0 THEN [rd EXCEPT !.total = BagCardinality(list)] ELSE rd

\* add_results: the entry recorded for a run (accuracy as the fraction
\* 100 * good / total)
Entry(rd, list, show_accuracy) ==
    [samples |-> list,
     count |-> BagCardinality(list),
     good_items |-> rd.good,
     total_items |-> rd.total,
     accuracy |-> IF show_accuracy THEN <<100 * rd.good, rd.total>> ELSE <<>>]

\* final_results[name] = result
Stored(name, entry) ==
    [n \in DOMAIN final_results \cup {name} |->
        IF n = name THEN entry ELSE final_results[n]]

\* add_results raises: np.percentile of no samples (IndexError, or in builds where
\* it yields nan the division 100. * good / 0 when accuracy is shown)
add_results_raises(list) == list = EmptyBag

\* the lines from StartTest to add_results of one run, and the step to the next
\* target latency or to runner.finish()
add_results ==
    /\ phase = "aggregate"
    /\ last_timeing' = Fallback
    /\ IF add_results_raises(Fallback)
       THEN /\ error' = "add_results"
            /\ phase' = "failed"
            /\ UNCHANGED <<result_dict, final_results, li, pc, nextId, completions,
                           predict_calls>>
       ELSE /\ result_dict' = Patched(result_dict, Fallback)
            /\ final_results' =
                  Stored(Name(scenario, target_latency),
                         Entry(Patched(result_dict, Fallback), Fallback, params.ACCURACY))
            /\ UNCHANGED error
            /\ IF scenario = "Server" /\ li < Len(params.MAX_LATENCY)
               THEN /\ li' = li + 1
                    /\ pc' = [pc EXCEPT ![Main] = "constructed"]
                    /\ phase' = "run"
                    /\ nextId' = 1
                    /\ completions' = [q \in Ids |-> <<>>]
                    /\ predict_calls' = [q \in Ids |-> 0]
               ELSE /\ phase' = "finish"
                    /\ UNCHANGED <<li, pc, nextId, completions, predict_calls>>
    /\ UNCHANGED <<kind, threads, max_batchsize, take_accuracy, result_timing, pp_results,
                   pp_starts, locals, query_samples, i, created, tasks, j, params, si,
                   numbers, args>>

\* runner.finish() has returned; lg.DestroyQSL, lg.DestroySUT; the next scenario
next_scenario ==
    /\ phase = "finish"
    /\ pc[Main] = "finished"
    /\ si' = si + 1
    /\ phase' = "scenario"
    /\ UNCHANGED <<runner, params, li, last_timeing, final_results, error, numbers, args>>

\* the scenario loop has ended: json.dump(final_results, f); mlperf_process returns
write_results ==
    /\ phase = "scenario"
    /\ si > Len(params.SCENARIO)
    /\ phase' = "done"
    /\ UNCHANGED <<runner, params, si, li, last_timeing, final_results, error, numbers, args>>

ProcessNext ==
    \/ get_args
    \/ get_backend
    \/ construct_runner
    \/ start_run(NoCounters, params.ACCURACY)
    \/ \E n \in 1..MaxLen :
          phase = "run" /\ nextId + n - 1 <= MaxTestSamples /\ issue_queries(n)
    \/ RunnerBase_enqueue
    \/ QueueRunner_enqueue
    \/ enqueue_return
    \/ \E t \in Executors : predict_returns(t)
    \/ \E t \in Executors : predict_raises(t)
    \/ \E t \in Executors : post_process_read(t)
    \/ \E t \in Executors : post_process_raises(t)
    \/ \E t \in Executors : post_process_write(t)
    \/ \E t \in Executors : record_accuracy(t)
    \/ \E t \in Executors : respond(t)
    \/ \E t \in Workers : handle_tasks_item(t)
    \/ \E t \in Workers : handle_tasks_None(t)
    \/ StartTest_returns
    \/ add_results
    \/ phase = "finish" /\ RunnerBase_finish
    \/ phase = "finish" /\ QueueRunner_finish
    \/ finish_put
    \/ finish_join
    \/ next_scenario
    \/ write_results

SpecProcess == ProcessInit /\ [][ProcessNext]_vars

\* ======================= add_results on numbers =======================
\* The numbers of an entry, computed as add_results computes them from a list of
\* latency samples and an elapsed time. Times are whole milliseconds and the
\* results exact fractions (numerator, denominator); the rounding of the binary
\* floating point the program computes in is not modelled.

\* ---- bounds ----
MaxResults == 5        \* latency samples in a result list 1..MaxResults

\* ---- inputs ----
LatencyValues == {10, 20, 30, 40, 50}
TookValues == {500, 1000}

\* ---- program constants ----
MILLI_SEC == 1000      \* milliseconds in a second (took and qps are per second)

Fraction(n, d) == [num |-> n, den |-> d]
Equal(a, b) == a.num * b.den = b.num * a.den

\* percentiles = [50., 80., 90., 95., 99., 99.9], in tenths of a percent
percentiles == <<500, 800, 900, 950, 990, 999>>

RECURSIVE Sum(_)
Sum(list) == IF list = <<>> THEN 0 ELSE Head(list) + Sum(Tail(list))

\* list with x inserted before its first larger element
RECURSIVE Insert(_, _)
Insert(x, list) ==
    IF list = <<>> THEN <<x>>
    ELSE IF x <= Head(list) THEN <<x>> \o list
    ELSE <<Head(list)>> \o Insert(x, Tail(list))

\* the samples in ascending order
RECURSIVE sorted(_)
sorted(list) == IF list = <<>> THEN <<>> ELSE Insert(Head(list), sorted(Tail(list)))

\* mutant of percentile: the sample below the position, without interpolation
percentile_lower(list, p) ==
    LET a == sorted(list)
        lo == ((Len(list) - 1) * p) \div 1000
    IN  Fraction(a[lo + 1], 1)

\* np.percentile(result_list, p): linear interpolation between the two samples
\* around position (n - 1) * p / 100 of the sorted list
percentile(list, p) ==
    LET a == sorted(list)
        n == Len(list)
        lo == ((n - 1) * p) \div 1000
        rest == ((n - 1) * p) % 1000
        hi == IF lo + 1 < n THEN lo + 1 ELSE lo
    IN  Fraction(a[lo + 1] * 1000 + rest * (a[hi + 1] - a[lo + 1]), 1000)

\* np.mean(result_list)
mean(list) == Fraction(Sum(list), Len(list))

\* len(result_list) / took, took in seconds
qps(list, t) == Fraction(Len(list) * MILLI_SEC, t)

\* ---- initial state: add_results is called with a list of samples ----
NumbersInit ==
    /\ result_list \in UNION {[1..n -> LatencyValues] : n \in 1..MaxResults}
    /\ took \in TookValues
    /\ result = None
    /\ NoArgs
    /\ phase = "add_results"
    /\ params = NoParams
    /\ si = 1
    /\ li = 1
    /\ last_timeing = EmptyBag
    /\ final_results = <<>>
    /\ error = "none"
    /\ kind = "none"
    /\ threads = 1
    /\ max_batchsize = 1
    /\ take_accuracy = FALSE
    /\ result_timing = EmptyBag
    /\ result_dict = NoCounters
    /\ pp_results = EmptyBag
    /\ pp_starts = 0
    /\ tasks = <<>>
    /\ pc = [t \in 0..threads |-> IF t = Main THEN "add_results" ELSE "absent"]
    /\ qitem = [t \in 0..threads |-> NoItem]
    /\ processed_results = [t \in 0..threads |-> <<>>]
    /\ tmp = [t \in 0..threads |-> NoCounters]
    /\ raised = [t \in 0..threads |-> "none"]
    /\ query_samples = <<>>
    /\ i = 0
    /\ created = <<>>
    /\ j = 0
    /\ nextId = 1
    /\ completions = [q \in Ids |-> <<>>]
    /\ predict_calls = [q \in Ids |-> 0]

\* add_results: buckets, and the numbers of the entry "result"
add_results_numbers ==
    /\ phase = "add_results"
    /\ result = None
    /\ result' = [took |-> took,
                  mean |-> mean(result_list),
                  percentiles |-> [k \in 1..Len(percentiles) |->
                                      percentile(result_list, percentiles[k])],
                  qps |-> qps(result_list, took),
                  count |-> Len(result_list)]
    /\ UNCHANGED <<runner, process, result_list, took, args>>

NumbersNext == add_results_numbers

SpecNumbers == NumbersInit /\ [][NumbersNext]_vars

\* ======================= get_args and the profiles =======================
\* Successive get_args calls of one process, with well-formed MAX_LATENCY and
\* SCENARIO, on the module-level SUPPORTED_PROFILES.

\* ---- bounds ----
MaxCalls == 3          \* get_args calls in one behaviour

\* ---- initial state: the module is loaded ----
ArgsInit ==
    /\ NoArgs
    /\ NoNumbers
    /\ phase = "get_args"
    /\ params = NoParams
    /\ si = 1
    /\ li = 1
    /\ last_timeing = EmptyBag
    /\ final_results = <<>>
    /\ error = "none"
    /\ kind = "none"
    /\ threads = 1
    /\ max_batchsize = 1
    /\ take_accuracy = FALSE
    /\ result_timing = EmptyBag
    /\ result_dict = NoCounters
    /\ pp_results = EmptyBag
    /\ pp_starts = 0
    /\ tasks = <<>>
    /\ pc = [t \in 0..threads |-> IF t = Main THEN "mlperf_process" ELSE "absent"]
    /\ qitem = [t \in 0..threads |-> NoItem]
    /\ processed_results = [t \in 0..threads |-> <<>>]
    /\ tmp = [t \in 0..threads |-> NoCounters]
    /\ raised = [t \in 0..threads |-> "none"]
    /\ query_samples = <<>>
    /\ i = 0
    /\ created = <<>>
    /\ j = 0
    /\ nextId = 1
    /\ completions = [q \in Ids |-> <<>>]
    /\ predict_calls = [q \in Ids |-> 0]

Default == "default_tf_object_det_zoo"

\* dict.update: d with the entries of other added or overwritten
update(d, other) ==
    [k \in DOMAIN d \cup DOMAIN other |-> IF k \in DOMAIN other THEN other[k] ELSE d[k]]

\* mutant of defaults_written: get_args works on a copy of the entry
defaults_written_copy(d) == profiles

\* defaults = SUPPORTED_PROFILES[Default] is the entry itself, not a copy: what
\* get_args writes to defaults is written to the entry
defaults_written(d) == [profiles EXCEPT ![Default] = d]

\* defaults after "if params[PROFILE] != Default: defaults.update(profile)"
defaults_updated(PROFILE) ==
    IF PROFILE # Default THEN update(profiles[Default], profiles[PROFILE])
    ELSE profiles[Default]

\* d[key] = d[key].split(","): a str has split, a list has not
CanSplit(d, key) == d[key].type = "str"
split(d, key) == [d EXCEPT ![key] = List(d[key].parts)]

\* get_args(params) with params[PROFILE] = PROFILE
get_args_profile(PROFILE) ==
    /\ phase = "get_args"
    /\ Len(called) < MaxCalls
    /\ called' = Append(called, PROFILE)
    /\ LET d == defaults_updated(PROFILE)
       IN  IF ~CanSplit(d, "inputs")
           THEN /\ profiles' = defaults_written(d)
                /\ returned' = [tag |-> "AttributeError"]
           ELSE IF ~CanSplit(split(d, "inputs"), "outputs")
           THEN /\ profiles' = defaults_written(split(d, "inputs"))
                /\ returned' = [tag |-> "AttributeError"]
           ELSE /\ profiles' = defaults_written(split(split(d, "inputs"), "outputs"))
                /\ returned' = [tag |-> "config",
                                defaults |-> split(split(d, "inputs"), "outputs")]
    /\ UNCHANGED <<runner, process, numbers>>

ArgsNext == \E PROFILE \in DOMAIN DeclaredProfiles : get_args_profile(PROFILE)

SpecArgs == ArgsInit /\ [][ArgsNext]_vars

\* ======================= properties =======================

\* query ids the driver has issued so far
Issued == 1..(nextId - 1)

\* the response was built from processed output (TRUE) or is empty (FALSE)
HasPayload(r) == r.size > 0

\* the query ids of a queue entry or of a thread's current item
IdsOf(e) == IF e.tag = "Item" THEN RangeOf(e.query_id) ELSE {}

RECURSIVE Concat(_)
Concat(ss) == IF ss = <<>> THEN <<>> ELSE Head(ss) \o Concat(Tail(ss))

IsPrefix(p, s) == Len(p) <= Len(s) /\ \A k \in 1..Len(p) : p[k] = s[k]

\* C1: once finish() has returned, every query id submitted by the enqueue calls
\* has received exactly one response, whether its item succeeded or raised; at no
\* time has a query id more than one response, and an id never submitted has none.
C1_ExactlyOneCompletion ==
    /\ \A q \in Ids : Len(completions[q]) <= 1
    /\ \A q \in Ids \ Issued : completions[q] = <<>>
    /\ pc[Main] = "finished" => \A q \in Issued : Len(completions[q]) = 1

\* C1 witness: a pooled run has finished in which one query was answered from a
\* failed item and another from a successful one
C1_Witness ==
    /\ pc[Main] = "finished"
    /\ kind = "QueueRunner"
    /\ \E q1, q2 \in Issued :
         /\ completions[q1] # <<>> /\ ~HasPayload(completions[q1][1])
         /\ completions[q2] # <<>> /\ HasPayload(completions[q2][1])

\* C2: the Items an enqueue call creates are contiguous slices: their query ids
\* and their content ids, concatenated in creation order, are a prefix of the input
\* while the call runs and exactly the input when its loop ends, and no Item holds
\* more than max_batchsize samples.
C2_Partition ==
    query_samples # <<>> =>
        /\ \A k \in 1..Len(created) : Len(created[k].query_id) <= max_batchsize
        /\ \A k \in 1..Len(created) : created[k].query_id # <<>>
        /\ IsPrefix(Concat([k \in 1..Len(created) |-> created[k].query_id]), query_id)
        /\ IsPrefix(Concat([k \in 1..Len(created) |-> created[k].content_id]), idx)
        /\ (pc[Main] = "enqueue" /\ ~MoreItems) =>
              /\ Concat([k \in 1..Len(created) |-> created[k].query_id]) = query_id
              /\ Concat([k \in 1..Len(created) |-> created[k].content_id]) = idx

\* C2 witness: the loop of an enqueue call has ended after cutting the input into
\* a full Item and a shorter last one
C2_Witness ==
    /\ pc[Main] = "enqueue"
    /\ ~MoreItems
    /\ Len(created) = 2
    /\ Len(created[1].query_id) = 2
    /\ Len(created[2].query_id) = 1

\* the empty response of query q
EmptyResponse(q) == [query_id |-> q, data |-> <<>>, size |-> 0]

\* the samples the synchronous runner has counted: those answered with a payload
\* and those of the item in hand once its post-processing has returned
SyncCounted ==
    Cardinality({q \in Issued : completions[q] # <<>> /\ HasPayload(completions[q][1])})
    + (IF pc[Main] \in {"take_accuracy", "respond"} /\ raised[Main] = "none"
       THEN Len(qitem[Main].query_id) ELSE 0)

\* C3: when Model.predict raises for an item, the thread executing it does not
\* change the good/total counters from the raise to the delivery, every query id of
\* the item receives one response with an empty payload, and (synchronous runner,
\* where nothing else runs) the counters count exactly the samples of the items
\* that succeeded.
C3_PredictRaises ==
    /\ [](kind = "RunnerBase" =>
            result_dict.total = SyncCounted /\ result_dict.good = SyncCounted)
    /\ [][\A t \in Executors :
            ((raised[t] = "predict" \/ raised'[t] = "predict") /\ pc'[t] # pc[t]) =>
               /\ result_dict' = result_dict
               /\ raised[t] = "predict" =>
                    \A q \in RangeOf(qitem[t].query_id) :
                        completions'[q] = Append(completions[q], EmptyResponse(q))]_vars

\* C3 witness: predict has raised for an item of two queries in a run whose
\* counters already count earlier samples
C3_Witness ==
    \E t \in Executors :
        /\ raised[t] = "predict"
        /\ pc[t] = "respond"
        /\ Len(qitem[t].query_id) = 2
        /\ result_dict.total > 0

\* C4: QueueRunner.finish() has returned only if every worker thread has exited,
\* and no completion is delivered after it has returned.
C4_FinishWaits ==
    /\ []((pc[Main] = "finished" /\ kind = "QueueRunner") =>
            \A t \in Workers : pc[t] = "exited")
    /\ [][pc[Main] = "finished" => completions' = completions]_vars

\* C4 witness: finish() has returned on a pool of two workers that executed items
C4_Witness ==
    /\ pc[Main] = "finished"
    /\ kind = "QueueRunner"
    /\ threads = 2
    /\ nextId > 3

\* C5: when QueueRunner.finish() returns no Item is left on the task queue or in
\* a worker's hands, and every query of every Item put on the queue has been
\* answered.
C5_FinishDropsNothing ==
    (pc[Main] = "finished" /\ kind = "QueueRunner") =>
        /\ \A k \in 1..Len(tasks) : tasks[k].tag # "Item"
        /\ \A t \in Workers : qitem[t] = NoItem
        /\ \A q \in Issued : completions[q] # <<>>

\* C5 witness: finish() has returned after more Items were queued than there are
\* workers
C5_Witness ==
    /\ pc[Main] = "finished"
    /\ kind = "QueueRunner"
    /\ max_batchsize = 1
    /\ nextId - 1 > threads

\* C6 (as claimed): when a pooled run of single-query items that all succeeded has
\* finished, good and total both equal the number of items.
C6_NoLostUpdates ==
    (/\ pc[Main] = "finished"
     /\ kind = "QueueRunner"
     /\ max_batchsize = 1
     /\ \A q \in Issued : completions[q] # <<>> /\ HasPayload(completions[q][1]))
    => (result_dict.good = nextId - 1 /\ result_dict.total = nextId - 1)

\* C7: a failing item does not end the thread that executed it: a raise leads to
\* the delivery of the item's responses, a worker exits only by taking a stop
\* sentinel from the queue, and when finish() has returned every query, also those
\* enqueued after a failed item, has its response.
C7_FailureIsolated ==
    /\ [](pc[Main] = "finished" => \A q \in Issued : completions[q] # <<>>)
    /\ [][\A t \in Executors :
            /\ (raised[t] = "none" /\ raised'[t] # "none") => pc'[t] = "respond"
            /\ (pc[t] # "exited" /\ pc'[t] = "exited") =>
                 (pc[t] = "get" /\ tasks # <<>> /\ Head(tasks).tag = "None")]_vars

\* C7 witness: the single worker of a pool answered a failed item and afterwards
\* executed a later item with success
C7_Witness ==
    /\ kind = "QueueRunner"
    /\ threads = 1
    /\ \E q1, q2 \in Issued :
         /\ q1 < q2
         /\ completions[q1] # <<>> /\ ~HasPayload(completions[q1][1])
         /\ completions[q2] # <<>> /\ HasPayload(completions[q2][1])

\* the caller is inside a put on the task queue
InPut ==
    /\ kind = "QueueRunner"
    /\ \/ pc[Main] = "enqueue" /\ MoreItems
       \/ pc[Main] = "finish_put"

\* C8: the task queue never holds more than 4 * threads entries, and a put that
\* finds it full neither grows it nor gives up its entry: the caller stays where
\* it is until a worker has removed an entry.
C8_BoundedQueue ==
    /\ [](Len(tasks) <= QueueFactor * threads)
    /\ [][(InPut /\ Len(tasks) = QueueFactor * threads) =>
            /\ pc'[Main] = pc[Main]
            /\ UNCHANGED <<query_samples, i, created, j>>
            /\ (tasks' = tasks \/ tasks' = Tail(tasks))]_vars

\* C8 witness: enqueue is blocked on a full queue
C8_Witness ==
    /\ kind = "QueueRunner"
    /\ pc[Main] = "enqueue"
    /\ MoreItems
    /\ Len(tasks) = QueueFactor * threads

\* where the queries that wait for their response are
Undelivered == {q \in Issued : completions[q] = <<>>}
Pending ==
    {query_id[k] : k \in (Len(Concat([n \in 1..Len(created) |-> created[n].query_id])) + 1)
                          ..Len(query_samples)}
Queued == UNION {IdsOf(tasks[k]) : k \in 1..Len(tasks)}
Held(t) == IdsOf(qitem[t])

\* C9: a response is delivered by the thread that holds the item, as the last step
\* of executing it; every query taken from the queue and not yet answered belongs
\* to the one item its worker holds, so a worker never takes another entry before
\* it has delivered, and no two workers hold the same query.
C9_DeliverBeforeNext ==
    /\ [](/\ Undelivered = Pending \cup Queued \cup UNION {Held(t) : t \in Executors}
          /\ \A t, u \in Executors : t # u => Held(t) \cap Held(u) = {}
          /\ \A t \in Executors : Held(t) \cap (Queued \cup Pending) = {}
          /\ \A t \in Workers : pc[t] \in {"absent", "get", "exited"} <=> qitem[t] = NoItem)
    /\ [][\A q \in Ids :
            completions'[q] # completions[q] =>
               \E t \in Executors :
                  /\ q \in Held(t)
                  /\ pc[t] = "respond"
                  /\ pc'[t] \in {"get", "enqueue"}]_vars

\* C9 witness: the single worker of a pool executes an item after it has delivered
\* the responses of an earlier one
C9_Witness ==
    /\ kind = "QueueRunner"
    /\ threads = 1
    /\ pc[1] = "post_process"
    /\ \E q \in Issued : completions[q] # <<>>

\* C10: when RunnerBase.enqueue has run its loop to the end, and whenever the
\* caller is outside enqueue, every submitted sample has its completion and
\* nothing is queued or in execution; no thread but the caller ever holds an item.
C10_SyncEnqueue ==
    kind = "RunnerBase" =>
        /\ tasks = <<>>
        /\ \A t \in Workers : pc[t] = "absent" /\ qitem[t] = NoItem
        /\ ((pc[Main] = "enqueue" /\ ~MoreItems) \/ pc[Main] \in {"idle", "finished"}) =>
              /\ qitem[Main] = NoItem
              /\ \A q \in Issued : Len(completions[q]) = 1

\* C10 witness: a synchronous enqueue of three samples has returned
C10_Witness ==
    /\ kind = "RunnerBase"
    /\ pc[Main] = "idle"
    /\ nextId = 4
    /\ \A q \in Issued : Len(completions[q]) = 1

\* the positions of a thread inside run_one_item
RunPcs == {"run", "post_process", "post_process_write", "take_accuracy", "respond"}

\* C11: QueueRunner.enqueue only partitions the input, reads the dataset and
\* pushes Items: the calling thread is never inside run_one_item and never holds an
\* item, and a step of its enqueue call changes neither the counters, the latency
\* list, the accumulator, the completions nor the predict calls; it leaves the
\* queue alone or appends the Item it created.
C11_EnqueueOnlyQueues ==
    /\ [](kind = "QueueRunner" =>
            /\ pc[Main] \notin RunPcs
            /\ qitem[Main] = NoItem
            /\ processed_results[Main] = <<>>)
    /\ [][(/\ kind = "QueueRunner"
           /\ pc[Main] = "enqueue"
           /\ (created' # created \/ pc'[Main] # "enqueue")) =>
                /\ UNCHANGED <<run_state, completions, predict_calls>>
                /\ (tasks' = tasks \/ tasks' = Append(tasks, NextItem))]_vars

\* C11 witness: the caller of a pooled enqueue has pushed two Items and is still
\* in the call while a worker post-processes and the counters have moved
C11_Witness ==
    /\ kind = "QueueRunner"
    /\ pc[Main] = "enqueue"
    /\ Len(created) = 2
    /\ \E t \in Workers : pc[t] = "post_process"
    /\ result_dict.total > 0

\* C12: Model.predict is invoked exactly once per Item: no query's item is
\* predicted twice, a query still queued or waiting in a thread at "run" has no
\* call, every other issued query has exactly one (also when its item failed), no
\* item is held by two threads or held while still queued, and after finish every
\* issued query has had its one call.
C12_PredictOnce ==
    /\ \A q \in Ids : predict_calls[q] <= 1
    /\ \A q \in Ids \ Issued : predict_calls[q] = 0
    /\ \A q \in Pending \cup Queued : predict_calls[q] = 0
    /\ \A t \in Executors : \A q \in Held(t) :
          predict_calls[q] = IF pc[t] = "run" THEN 0 ELSE 1
    /\ \A q \in Ids : completions[q] # <<>> => predict_calls[q] = 1
    /\ \A t, u \in Executors : t # u => Held(t) \cap Held(u) = {}
    /\ \A t \in Executors : Held(t) \cap Queued = {}
    /\ pc[Main] = "finished" => \A q \in Issued : predict_calls[q] = 1

\* C12 witness: a pool of two workers has finished four queries, one of them
\* answered from a failed item, each predicted once
C12_Witness ==
    /\ pc[Main] = "finished"
    /\ kind = "QueueRunner"
    /\ threads = 2
    /\ nextId = 5
    /\ \E q \in Issued : ~HasPayload(completions[q][1])
    /\ \A q \in Issued : predict_calls[q] = 1

\* the queries of the latency samples recorded so far
Timed == UNION {RangeOf(s) : s \in BagToSet(result_timing)}

\* C14: executing an item appends one latency sample and adds its processed
\* results to the accumulator once, exactly when predict and post-process both
\* succeeded and accuracy mode is on; otherwise it adds nothing. So the item in a
\* thread's hands has its sample exactly when it reached the delivery that way,
\* an answered query has one exactly when it was answered with a payload under
\* accuracy mode, both collections have the same size, and they change only
\* together, by the one sample of a successful item.
C14_SampleIffSuccessAndAccuracy ==
    /\ [](/\ \A t \in Executors : qitem[t] # NoItem =>
                CopiesIn(latency(qitem[t]), result_timing) =
                   IF pc[t] = "respond" /\ raised[t] = "none" /\ take_accuracy
                   THEN 1 ELSE 0
          /\ \A s \in BagToSet(result_timing) : CopiesIn(s, result_timing) = 1
          /\ BagCardinality(pp_results) = BagCardinality(result_timing)
          /\ \A q \in Issued : completions[q] # <<>> =>
                (q \in Timed <=> (take_accuracy /\ HasPayload(completions[q][1])))
          /\ Timed \cap (Pending \cup Queued) = {})
    /\ [][(result_timing' # result_timing \/ pp_results' # pp_results) =>
            \E t \in Executors :
               /\ pc[t] = "take_accuracy"
               /\ raised[t] = "none"
               /\ take_accuracy
               /\ result_timing' = result_timing (+) SetToBag({latency(qitem[t])})
               /\ pp_results' = pp_results (+) SetToBag({processed_results[t]})]_vars

\* C14 witness: an accuracy run has finished with one sample for a successful item
\* and none for a failed one
C14_Witness ==
    /\ pc[Main] = "finished"
    /\ take_accuracy
    /\ \E q1, q2 \in Issued :
         /\ HasPayload(completions[q1][1]) /\ q1 \in Timed
         /\ ~HasPayload(completions[q2][1]) /\ q2 \notin Timed

\* every Item in existence: created by the running call, queued, or in a thread
Items ==
    {created[k] : k \in 1..Len(created)}
    \cup {tasks[k] : k \in {n \in 1..Len(tasks) : tasks[n].tag = "Item"}}
    \cup {qitem[t] : t \in {u \in Executors : qitem[u] # NoItem}}

\* C19: every Item has as many query ids as content ids (and inputs), and its k-th
\* query id and k-th content id come from the same sample: the sample with that id
\* has that index, in the input of the running call for the Items it created.
C19_ItemPairsAligned ==
    /\ \A it \in Items :
          /\ Len(it.query_id) = Len(it.content_id)
          /\ Len(it.img) = Len(it.query_id)
          /\ \A k \in 1..Len(it.query_id) :
                it.content_id[k] = (it.query_id[k] - 1) % DatasetCount
    /\ \A n \in 1..Len(created) : \A k \in 1..Len(created[n].query_id) :
          \E m \in 1..Len(query_samples) :
             /\ query_samples[m].id = created[n].query_id[k]
             /\ query_samples[m].index = created[n].content_id[k]

\* C19 witness: the second Item of a call, cut from the middle of the input, is on
\* the queue or in execution
C19_Witness ==
    /\ max_batchsize = 1
    /\ Len(created) = 2
    /\ created[2].query_id = <<query_samples[2].id>>
    /\ created[2].content_id = <<query_samples[2].index>>
    /\ created[2].content_id # created[1].content_id

\* the sentinels finish has put so far
SentinelsPut ==
    IF pc[Main] = "finish_put" THEN j
    ELSE IF pc[Main] \in {"finish_join", "finished"} THEN threads ELSE 0

\* the workers still alive
Live == {t \in Workers : pc[t] # "exited"}

\* C20: in a pool, before finish is called all the workers are alive and no
\* sentinel exists; each sentinel put is either still queued or has ended exactly
\* one worker; a worker ends only by taking a sentinel off the queue, with no item
\* in hand, and never steps again; when finish has returned the queue is empty and
\* no worker is alive.
C20_SentinelPerWorker ==
    /\ [](kind = "QueueRunner" =>
            /\ Cardinality({k \in 1..Len(tasks) : tasks[k] = None})
                 + (threads - Cardinality(Live)) = SentinelsPut
            /\ SentinelsPut = 0 => Cardinality(Live) = threads
            /\ \A t \in Workers : pc[t] = "exited" => qitem[t] = NoItem
            /\ pc[Main] = "finished" => tasks = <<>> /\ Live = {})
    /\ [][\A t \in Workers :
            /\ pc[t] = "exited" =>
                  /\ pc'[t] = "exited"
                  /\ qitem'[t] = qitem[t]
                  /\ processed_results'[t] = processed_results[t]
            /\ (pc[t] # "exited" /\ pc'[t] = "exited") =>
                  /\ pc[t] = "get"
                  /\ Head(tasks) = None
                  /\ tasks' = Tail(tasks)
                  /\ \A u \in Workers \ {t} : pc'[u] = pc[u]]_vars

\* C20 witness: during finish on a pool of two, one worker has taken its sentinel
\* and ended while the other sentinel is still queued
C20_Witness ==
    /\ kind = "QueueRunner"
    /\ threads = 2
    /\ pc[Main] = "finish_join"
    /\ Cardinality(Live) = 1
    /\ Cardinality({k \in 1..Len(tasks) : tasks[k] = None}) = 1

C15_EndToEnd ==
    (/\ phase = "done"
     /\ Len(params.SCENARIO) = 1
     /\ params.SCENARIO[1] # "Server"
     /\ max_batchsize = 1
     /\ nextId = 3
     /\ \A q \in 1..2 : completions[q] # <<>> /\ HasPayload(completions[q][1]))
    => /\ \A q \in 1..2 : Len(completions[q]) = 1
       /\ result_dict = [good |-> 2, total |-> 2]
       /\ DOMAIN final_results = {<<params.SCENARIO[1]>>}
       /\ final_results[<<params.SCENARIO[1]>>].count = 2

\* the names mlperf_process is to leave in final_results
ExpectedNames ==
    {<<params.SCENARIO[k]>> :
        k \in {n \in 1..Len(params.SCENARIO) : params.SCENARIO[n] # "Server"}}
    \cup {<<"Server", params.MAX_LATENCY[m]>> :
            m \in {n \in 1..Len(params.MAX_LATENCY) :
                     \E k \in 1..Len(params.SCENARIO) : params.SCENARIO[k] = "Server"}}

\* C16: when mlperf_process has run its scenarios, final_results holds exactly
\* the entries named by each non-Server scenario and by Server with each target
\* latency; the entry a run writes has count = the number of latency samples
\* aggregated, good_items and total_items = the run state's counters, an accuracy
\* value exactly in accuracy mode, and writing it leaves the other entries alone.
C16_OneEntryPerRun ==
    /\ [](phase = "done" => DOMAIN final_results = ExpectedNames)
    /\ [](\A n \in DOMAIN final_results :
             /\ final_results[n].count = BagCardinality(final_results[n].samples)
             /\ (final_results[n].accuracy # <<>>) <=> params.ACCURACY)
    /\ [][(phase = "aggregate" /\ phase' \in {"run", "finish"}) =>
             /\ DOMAIN final_results' =
                   DOMAIN final_results \cup {Name(scenario, target_latency)}
             /\ \A n \in DOMAIN final_results \ {Name(scenario, target_latency)} :
                   final_results'[n] = final_results[n]
             /\ final_results'[Name(scenario, target_latency)].samples = last_timeing'
             /\ final_results'[Name(scenario, target_latency)].good_items =
                   result_dict'.good
             /\ final_results'[Name(scenario, target_latency)].total_items =
                   result_dict'.total]_vars

\* C16 witness: an accuracy-mode process has run MultiStream and a Server sweep of
\* two target latencies and left three entries
C16_Witness ==
    /\ phase = "done"
    /\ params.SCENARIO = <<"MultiStream", "Server">>
    /\ params.ACCURACY
    /\ Len(params.MAX_LATENCY) = 2
    /\ Cardinality(DOMAIN final_results) = 3

\* mlperf_process has failed on its configuration
ConfigurationFailure == phase = "failed" /\ error # "add_results"

\* C18: a malformed latency list, an unknown scenario name and an unknown backend
\* end mlperf_process before any run: get_args passes only a well-formed latency
\* list, no runner is constructed unless all scenario names and the backend are
\* known, and when the process has failed on its configuration no runner exists,
\* start_run was not called, and no query was issued, predicted or completed.
C18_ConfigurationFailureFirst ==
    /\ [](ConfigurationFailure =>
            /\ kind = "none"
            /\ pc[Main] = "mlperf_process"
            /\ \A t \in Workers : pc[t] = "absent"
            /\ pp_starts = 0
            /\ nextId = 1
            /\ \A q \in Ids : completions[q] = <<>> /\ predict_calls[q] = 0
            /\ final_results = <<>>)
    /\ [](phase \notin {"get_args", "get_backend", "failed"} =>
            /\ \A k \in 1..Len(params.SCENARIO) : params.SCENARIO[k] \in SCENARIO_MAP
            /\ params.backend \in KnownBackends)
    /\ [][(phase = "get_args" /\ phase' = "get_backend") =>
             \A k \in 1..Len(params.MAX_LATENCY) : IsFloat(params.MAX_LATENCY[k])]_vars

\* C18 witness: the process has failed on an unknown scenario name that follows a
\* known one
C18_Witness ==
    /\ phase = "failed"
    /\ params.SCENARIO = <<"Offline", "Bogus">>
    /\ error = "NameError: name 'parser' is not defined"

\* the median of the samples: the middle one of the sorted list, or the mean of
\* the two middle ones
Median(list) ==
    LET a == sorted(list)
        n == Len(list)
    IN  IF n % 2 = 1 THEN Fraction(a[(n + 1) \div 2], 1)
        ELSE Fraction(a[n \div 2] + a[n \div 2 + 1], 2)

\* list holds exactly the samples of other, in any order
SameSamples(list, other) == sorted(list) = sorted(other)

OutputOf(q) == post_process(predict(get_samples(<<(q - 1) % DatasetCount>>).data))[1]

\* C28: the list a thread hands to the completion callback has one response per
\* query id of its Item, in the Item's order, the k-th built from the k-th
\* processed output; delivering it appends exactly these responses; so a query
\* answered from a successful item carries the output of its own sample.
C28_ResponsePairing ==
    /\ [](\A t \in Executors : pc[t] = "respond" =>
             LET response == Responses(qitem[t], processed_results[t])
             IN  /\ Len(response) = Len(qitem[t].query_id)
                 /\ \A k \in 1..Len(response) :
                       /\ response[k].query_id = qitem[t].query_id[k]
                       /\ response[k].data = processed_results[t][k]
                       /\ raised[t] = "none" =>
                             response[k].data = OutputOf(qitem[t].query_id[k]))
    /\ [](\A q \in Issued : (completions[q] # <<>> /\ HasPayload(completions[q][1])) =>
             completions[q][1] = QuerySampleResponse(q, OutputOf(q)))
    /\ [][\A t \in Executors : (pc[t] = "respond" /\ pc'[t] # "respond") =>
             \A q \in Ids :
                completions'[q] = completions[q] \o
                   SelectSeq(Responses(qitem[t], processed_results[t]),
                             LAMBDA r : r.query_id = q)]_vars

\* C28 witness: both queries of an Item of two samples with different outputs
\* have been answered from its successful execution
C28_Witness ==
    /\ pc[Main] = "enqueue"
    /\ Len(created) = 1
    /\ Len(created[1].query_id) = 2
    /\ \A k \in 1..2 :
          /\ completions[created[1].query_id[k]] # <<>>
          /\ HasPayload(completions[created[1].query_id[k]][1])
    /\ OutputOf(created[1].query_id[1]) # OutputOf(created[1].query_id[2])

\* the queries of the running call that have been answered
Answered == {q \in RangeOf(query_id) : completions[q] # <<>>}

\* the queries of the Items the running call created before its latest one
Earlier ==
    UNION {RangeOf(created[k].query_id) : k \in 1..(Len(created) - 1)}

\* C26: in the synchronous runner the queries of a call are answered in the order
\* of the submitted samples (at any time the answered ones are a leading stretch
\* of the input: all of the Items before the latest one, and the latest one's once
\* the caller has delivered it), and the dataset is read for the next partition
\* only when every query of the partitions before it has been answered.
C26_SyncOrder ==
    /\ [](kind = "RunnerBase" =>
            /\ \E m \in 0..Len(query_id) : Answered = {query_id[k] : k \in 1..m}
            /\ Answered = Earlier \cup
                  (IF created # <<>> /\ qitem[Main] = NoItem
                   THEN RangeOf(created[Len(created)].query_id) ELSE {}))
    /\ [][(kind = "RunnerBase" /\ Len(created') > Len(created)) =>
             /\ \A k \in 1..Len(created) :
                   \A q \in RangeOf(created[k].query_id) : completions[q] # <<>>
             /\ created' = Append(created, qitem'[Main])]_vars

\* C26 witness: the synchronous caller executes the second partition of a call
\* after the first was answered, the third sample still waiting
C26_Witness ==
    /\ kind = "RunnerBase"
    /\ max_batchsize = 1
    /\ Len(query_samples) = 3
    /\ Len(created) = 2
    /\ pc[Main] = "post_process"
    /\ Answered = {query_id[1]}

\* add_results has written the entry of the run in this step
Aggregated == phase = "aggregate" /\ phase' \in {"run", "finish"}

\* the latency samples of the run being aggregated: those the runner recorded in
\* accuracy mode, those the driver reported in performance mode
OwnSamples == IF params.ACCURACY THEN result_timing ELSE process_latencies

\* C23 (as claimed): the samples of the entry a run writes were all recorded
\* during that run: each occurs in the entry at most as often as the run
\* recorded it.
C23_OwnSamples ==
    [][Aggregated =>
          LET samples == final_results'[Name(scenario, target_latency)].samples
          IN  \A x \in BagToSet(samples) :
                 /\ x \in BagToSet(OwnSamples)
                 /\ CopiesIn(x, samples) <= CopiesIn(x, OwnSamples)]_vars

\* C24: add_results changes nothing of the run state but the total counter, and
\* that only when it is 0: total becomes the number of latency samples and the
\* entry's total_items is that number; otherwise the counters stay and
\* total_items is total. good, the latency list, the accuracy flag and the
\* accumulator are never changed.
C24_TotalPatch ==
    [][Aggregated =>
          LET entry == final_results'[Name(scenario, target_latency)]
          IN  /\ UNCHANGED <<take_accuracy, result_timing, pp_results, pp_starts>>
              /\ result_dict'.good = result_dict.good
              /\ entry.good_items = result_dict.good
              /\ IF result_dict.total = 0
                 THEN /\ result_dict'.total = entry.count
                      /\ entry.total_items = entry.count
                      /\ entry.count = BagCardinality(last_timeing')
                 ELSE /\ result_dict' = result_dict
                      /\ entry.total_items = result_dict.total]_vars

\* C24 witness: a run whose two samples both failed has been aggregated: total
\* was 0 and is now the number of latency samples
C24_Witness ==
    /\ phase = "finish"
    /\ pc[Main] = "idle"
    /\ result_dict = [good |-> 0, total |-> 2]
    /\ \E n \in DOMAIN final_results :
          final_results[n].count = 2 /\ final_results[n].total_items = 2

\* C22 (as claimed): when a thread leaves the delivery of an item, also one whose
\* post-processor returned fewer outputs than it has query ids, every query id of
\* the item has exactly one response and the thread goes on to its next item (a
\* worker to the queue, the caller to its enqueue loop).
C22_ShortOutputAnswered ==
    [][\A t \in Executors : (pc[t] = "respond" /\ pc'[t] # "respond") =>
          /\ \A q \in Held(t) : Len(completions'[q]) = 1
          /\ pc'[t] = IF t = Main THEN "enqueue" ELSE "get"]_vars

\* C27: once finish() of a QueueRunner has returned, no worker is left: an Item
\* pushed by a later enqueue stays on the queue, is never predicted and none of
\* its queries is ever answered; and an enqueue that finds 4 * threads entries
\* pending stays blocked, as no step can follow.
C27_NoReuse ==
    /\ [](phase = "reuse" =>
            /\ \A t \in Workers : pc[t] = "exited" /\ qitem[t] = NoItem
            /\ \A q \in Queued : completions[q] = <<>> /\ predict_calls[q] = 0)
    /\ [][phase = "reuse" =>
            /\ completions' = completions
            /\ predict_calls' = predict_calls
            /\ IsPrefix(tasks, tasks')]_vars
    /\ [][~(/\ phase = "reuse"
            /\ pc[Main] = "enqueue"
            /\ MoreItems
            /\ Len(tasks) = threads * QueueFactor)]_vars

\* C27 witness: after finish() a later enqueue has filled the queue of a pool of
\* one with four Items and waits to push a fifth
C27_Witness ==
    /\ phase = "reuse"
    /\ threads = 1
    /\ pc[Main] = "enqueue"
    /\ MoreItems
    /\ Len(tasks) = threads * QueueFactor
    /\ \A k \in 1..Len(tasks) : tasks[k].tag = "Item"

\* the profiles of the two latest get_args calls
ProfileA == DeclaredProfiles[called[Len(called) - 1]]
ProfileB == DeclaredProfiles[called[Len(called)]]

\* the keys the earlier call's profile set and the later call's does not define
Leaked ==
    IF called[Len(called) - 1] = Default THEN {}
    ELSE DOMAIN ProfileA \ (IF called[Len(called)] = Default THEN {} ELSE DOMAIN ProfileB)

DefinesInputs ==
    called[Len(called)] # Default /\ "inputs" \in DOMAIN ProfileB

C21_NoDeadlock ==
    /\ \A q \in Ids : (kind = "QueueRunner" /\ q \in Queued) ~> (completions[q] # <<>>)
    /\ (kind = "QueueRunner" /\ pc[Main] = "enqueue") ~> (pc[Main] = "idle")
    /\ (pc[Main] \in {"finish_put", "finish_join"}) ~> (pc[Main] = "finished")

====
